---- MODULE Spec2Model ----
(***************************************************************************)
(* Model of the document-summarization service: the error taxonomy         *)
(* (src/src/exceptions.py), the document utilities (src/src/utils.py), the *)
(* summarization orchestrator and CLI driver                               *)
(* (src/src/summarize_document.py) and the HTTP endpoint (src/src/app.py). *)
(*                                                                         *)
(* Conventions.  A Python str or bytes value is a sequence: a str is a     *)
(* sequence of one-character strings ("U+00E9" stands for the character    *)
(* e-acute), a bytes value a sequence of integers 0..255.  Python's None   *)
(* is the value None below.  An exception is a record with its class name  *)
(* in "type"; exception messages are TLA+ strings.                         *)
(***************************************************************************)
EXTENDS Integers, Sequences, FiniteSets, TLC

VARIABLES
    entry,      \* which public entry point this run exercises
    pc,         \* position of the run inside that entry point
    argv,       \* sys.argv of the CLI process
    doc_path,   \* the path examined by validate_document and main
    fexists,    \* whether a file exists at the examined path
    content,    \* bytes of that file (or of the HTTP upload)
    filename,   \* UploadFile.filename of the HTTP request (None when absent)
    allowed,    \* allowed_types argument of validate_document
    maxsize,    \* max_size_bytes argument of validate_document
    apikey,     \* os.environ["OPENAI_API_KEY"] (None when unset)
    ext,        \* extension returned by validate_document
    text,       \* text handed to summarize_text
    summary,    \* value returned by summarize_text
    ret,        \* value returned by the entry point
    exc,        \* exception propagating out of the code that ran last
    response,   \* HTTP response sent to the client
    exit,       \* how the standalone CLI process ended
    trace       \* calls made so far, in order

vars == <<entry, pc, argv, doc_path, fexists, content, filename, allowed,
          maxsize, apikey, ext, text, summary, ret, exc, response, exit, trace>>

-----------------------------------------------------------------------------
(* Bounds of the model *)

MaxLen == 2
MaxPages == 2

-----------------------------------------------------------------------------
(* Python values *)

None == <<"None">>

NoException == [type |-> "None"]

RECURSIVE Join(_)
\* "".join(s) for a sequence s of strings
Join(s) == IF s = <<>> THEN "" ELSE Head(s) \o Join(Tail(s))

\* bool(s) for an Optional[str] / Optional[bytes]: None and "" are falsy
Truthy(s) == s # None /\ s # <<>>

SeqsUpTo(S, n) == UNION {[1..k -> S] : k \in 0..n}

\* str.isspace() on the characters of the model's alphabet
IsSpace(c) == c \in {" ", "\n", "\r", "\t"}

RECURSIVE LStrip(_)
LStrip(s) == IF s # <<>> /\ IsSpace(Head(s)) THEN LStrip(Tail(s)) ELSE s

RECURSIVE RStrip(_)
RStrip(s) ==
    IF s # <<>> /\ IsSpace(s[Len(s)]) THEN RStrip(SubSeq(s, 1, Len(s) - 1)) ELSE s

\* str.strip()
Strip(s) == RStrip(LStrip(s))

\* one character of str.lower()
LowerChar(c) ==
    CASE c = "A" -> "a" [] c = "B" -> "b" [] c = "C" -> "c" [] c = "D" -> "d"
      [] c = "E" -> "e" [] c = "F" -> "f" [] c = "G" -> "g" [] c = "H" -> "h"
      [] c = "I" -> "i" [] c = "J" -> "j" [] c = "K" -> "k" [] c = "L" -> "l"
      [] c = "M" -> "m" [] c = "N" -> "n" [] c = "O" -> "o" [] c = "P" -> "p"
      [] c = "Q" -> "q" [] c = "R" -> "r" [] c = "S" -> "s" [] c = "T" -> "t"
      [] c = "U" -> "u" [] c = "V" -> "v" [] c = "W" -> "w" [] c = "X" -> "x"
      [] c = "Y" -> "y" [] c = "Z" -> "z" [] OTHER -> c

\* str.lower()
Lower(s) == [i \in 1..Len(s) |-> LowerChar(s[i])]

\* str.endswith(suffix)
EndsWith(s, suffix) ==
    /\ Len(s) >= Len(suffix)
    /\ SubSeq(s, Len(s) - Len(suffix) + 1, Len(s)) = suffix

\* str.rfind(c): index (1-based) of the last c in s, 0 when there is none
RFind(s, c) ==
    IF \E i \in 1..Len(s) : s[i] = c
    THEN CHOOSE i \in 1..Len(s) : s[i] = c /\ \A j \in (i + 1)..Len(s) : s[j] # c
    ELSE 0

\* os.path.splitext(p)[1] on a POSIX path: the suffix from the last dot of the
\* last path component, unless that component has only dots before it
splitext_ext(p) ==
    LET sepIndex == RFind(p, "/")
        dotIndex == RFind(p, ".")
    IN  IF /\ dotIndex > sepIndex
           /\ \E k \in (sepIndex + 1)..(dotIndex - 1) : p[k] # "."
        THEN SubSeq(p, dotIndex, Len(p))
        ELSE <<>>

-----------------------------------------------------------------------------
(* bytes.decode("utf-8") and text-mode reading *)

\* the bytes the model's files and uploads are made of: "a", LF, CR, the two
\* bytes of U+00E9, and 0xFF, which no UTF-8 stream contains
ByteAlphabet == {97, 10, 13, 195, 169, 255}

IsContinuation(b) == b >= 128 /\ b <= 191

\* the character of a one-byte (ASCII) code
Chr(b) == CASE b = 97 -> "a" [] b = 10 -> "\n" [] b = 13 -> "\r"
            [] b = 32 -> " " [] b = 9 -> "\t" [] OTHER -> "?"

\* the character of a two-byte code; the model's alphabet has one
Chr2(b1, b2) == IF b1 = 195 /\ b2 = 169 THEN "U+00E9" ELSE "U+????"

RECURSIVE Utf8Valid(_)
\* whether bytes.decode("utf-8") succeeds (one- and two-byte forms; a lead
\* byte 0xC0, 0xC1 or >= 0xF5, or a stray continuation byte, never decodes)
Utf8Valid(b) ==
    IF b = <<>> THEN TRUE
    ELSE IF Head(b) < 128 THEN Utf8Valid(Tail(b))
    ELSE IF Head(b) >= 194 /\ Head(b) <= 223
         THEN /\ Len(b) >= 2
              /\ IsContinuation(b[2])
              /\ Utf8Valid(Tail(Tail(b)))
    ELSE FALSE

RECURSIVE Utf8Decode(_)
\* bytes.decode("utf-8") of a valid stream
Utf8Decode(b) ==
    IF b = <<>> THEN <<>>
    ELSE IF Head(b) < 128 THEN <<Chr(Head(b))>> \o Utf8Decode(Tail(b))
    ELSE <<Chr2(b[1], b[2])>> \o Utf8Decode(Tail(Tail(b)))

RECURSIVE UniversalNewlines(_)
\* newline translation of a file opened in text mode with newline=None:
\* "\r\n" and a lone "\r" are read as "\n"
UniversalNewlines(s) ==
    IF s = <<>> THEN <<>>
    ELSE IF Head(s) = "\r"
         THEN IF Len(s) >= 2 /\ s[2] = "\n"
              THEN <<"\n">> \o UniversalNewlines(Tail(Tail(s)))
              ELSE <<"\n">> \o UniversalNewlines(Tail(s))
    ELSE <<Head(s)>> \o UniversalNewlines(Tail(s))

-----------------------------------------------------------------------------
(* Error taxonomy *)

DocumentError(message) ==
    [type |-> "DocumentError", message |-> message, status_code |-> 500]

DocumentNotFoundError(message) ==
    [type |-> "DocumentNotFoundError", message |-> message, status_code |-> 404]

InvalidDocumentError(message) ==
    [type |-> "InvalidDocumentError", message |-> message, status_code |-> 400]

SummarizationError(message) ==
    [type |-> "SummarizationError", message |-> message, status_code |-> 500]

\* fastapi.HTTPException(status_code=..., detail=...)
HTTPException(status_code, detail) ==
    [type |-> "HTTPException", status_code |-> status_code, detail |-> detail]

\* an exception of a built-in or third-party class, raised with one message
Builtin(type, message) == [type |-> type, message |-> message]

\* isinstance(e, DocumentError)
IsDocumentError(e) ==
    e.type \in {"DocumentError", "DocumentNotFoundError",
                "InvalidDocumentError", "SummarizationError"}

\* isinstance(e, ValueError): UnicodeDecodeError derives from ValueError
IsValueError(e) == e.type \in {"ValueError", "UnicodeDecodeError"}

\* isinstance(e, OSError): IOError is OSError
IsOSError(e) ==
    e.type \in {"OSError", "FileNotFoundError", "PermissionError",
                "IsADirectoryError"}

\* str(e): the single constructor argument, and "{status_code}: {detail}" for
\* the framework's HTTPException
Str(e) ==
    IF e.type = "HTTPException"
    THEN ToString(e.status_code) \o ": " \o e.detail
    ELSE e.message

-----------------------------------------------------------------------------
(* Outcomes of a call: a returned value or a raised exception *)

Return(v) == [exc |-> NoException, value |-> v]

Raise(e) == [exc |-> e, value |-> None]

Raised(o) == o.exc # NoException

-----------------------------------------------------------------------------
(* Configuration constants (src/constants.py) *)

ALLOWED_TYPES == << <<".", "p", "d", "f">>, <<".", "t", "x", "t">> >>

MAX_SIZE_BYTES == 10485760

-----------------------------------------------------------------------------
(* Document utilities (src/src/utils.py) *)

RECURSIVE ReprItems(_)
\* the items of repr(list of str), comma-separated
ReprItems(l) ==
    IF l = <<>> THEN ""
    ELSE "'" \o Join(Head(l)) \o "'"
         \o (IF Len(l) > 1 THEN ", " ELSE "") \o ReprItems(Tail(l))

\* repr(list of str), as an f-string renders allowed_types
ReprList(l) == "[" \o ReprItems(l) \o "]"

\* x in l, for a list l
InList(x, l) == \E i \in 1..Len(l) : l[i] = x

\* the size test of validate_document, as a bug would have it: a file of
\* exactly the ceiling is rejected
TooLargeOffByOne(file_size, max_size_bytes) == file_size >= max_size_bytes

\* file_size > max_size_bytes
TooLarge(file_size, max_size_bytes) == file_size > max_size_bytes

\* validate_document(path, allowed_types, max_size_bytes), given what
\* os.path.exists answers and how os.path.getsize ends (it returns the size
\* or raises OSError when the file went away after the existence check)
validate_document(path, allowed_types, max_size_bytes, exists, getsize) ==
    LET e == Lower(splitext_ext(path))
    IN  IF ~exists
        THEN Raise(DocumentNotFoundError("File not found: " \o Join(path)))
        ELSE IF ~InList(e, allowed_types)
        THEN Raise(InvalidDocumentError(
                 "Unsupported file type: " \o Join(e) \o ". Allowed types: "
                 \o ReprList(allowed_types)))
        ELSE IF Raised(getsize)
        THEN Raise(getsize.exc)
        ELSE IF getsize.value = 0
        THEN Raise(InvalidDocumentError("File is empty: " \o Join(path)))
        ELSE IF TooLarge(getsize.value, max_size_bytes)
        THEN Raise(InvalidDocumentError(
                 "File too large: " \o ToString(getsize.value)
                 \o " bytes. Max allowed is " \o ToString(max_size_bytes)
                 \o " bytes."))
        ELSE Return(e)

RECURSIVE ConcatPages(_)
\* text += page.extract_text() or "" over the pages, in order
ConcatPages(pages) ==
    IF pages = <<>> THEN <<>>
    ELSE (IF Truthy(Head(pages)) THEN Head(pages) ELSE <<>>)
         \o ConcatPages(Tail(pages))

\* extract_pdf_text as a bug would have it: no clause for the parser's
\* PdfStreamError, which then ends in the catch-all like any other failure
extract_pdf_text_no_stream_clause(pdf_path, exists, opened, parsed) ==
    IF ~exists
    THEN Raise(DocumentNotFoundError("File not found: " \o Join(pdf_path)))
    ELSE IF Raised(opened)
    THEN IF IsOSError(opened.exc)
         THEN Raise(DocumentError("Error accessing file: " \o Str(opened.exc)))
         ELSE Raise(opened.exc)
    ELSE IF ~Raised(parsed)
    THEN Return(ConcatPages(parsed.value))
    ELSE Raise(DocumentError("Error reading PDF file: " \o Str(parsed.exc)))

\* extract_pdf_text(pdf_path), given what os.path.exists answers, how open()
\* ends and how the parser ends (its pages, or an exception)
extract_pdf_text(pdf_path, exists, opened, parsed) ==
    IF ~exists
    THEN Raise(DocumentNotFoundError("File not found: " \o Join(pdf_path)))
    ELSE IF Raised(opened)
    THEN IF IsOSError(opened.exc)
         THEN Raise(DocumentError("Error accessing file: " \o Str(opened.exc)))
         ELSE Raise(opened.exc)
    ELSE IF ~Raised(parsed)
    THEN Return(ConcatPages(parsed.value))
    ELSE IF parsed.exc.type = "PdfStreamError"
    THEN Raise(InvalidDocumentError(
             "Invalid or corrupted PDF file: " \o Str(parsed.exc)))
    ELSE Raise(DocumentError("Error reading PDF file: " \o Str(parsed.exc)))

\* get_openai_key(), given os.getenv("OPENAI_API_KEY")
get_openai_key(api_key) ==
    IF ~Truthy(api_key)
    THEN Raise(Builtin("ValueError", "OPENAI_API_KEY not set in environment"))
    ELSE Return(api_key)

-----------------------------------------------------------------------------
(* Summarization orchestrator (src/src/summarize_document.py) *)

\* the emptiness test of summarize_text, as a bug would have it: whitespace
\* is not stripped before the test
IsBlankNoStrip(t) == ~Truthy(t)

\* not text or not text.strip()
IsBlank(t) == ~Truthy(t) \/ Strip(t) = <<>>

\* except (ValueError, AttributeError) around chain.invoke
summarize_text_invoke_handler(e) ==
    IF IsValueError(e) \/ e.type = "AttributeError"
    THEN SummarizationError("Error during text summarization: " \o Str(e))
    ELSE e

\* the outer handlers of summarize_text, as a bug would have them: no
\* "except DocumentError: raise" clause
summarize_text_handler_wrap_all(e) ==
    SummarizationError("Unexpected error during summarization: " \o Str(e))

\* except DocumentError: raise / except Exception: wrap (the second
\* "except Exception" clause can never be selected)
summarize_text_handler(e) ==
    IF IsDocumentError(e)
    THEN e
    ELSE SummarizationError("Unexpected error during summarization: " \o Str(e))

\* the handlers around main()'s plain-text read
main_read_handler(e) ==
    IF e.type = "UnicodeDecodeError"
    THEN InvalidDocumentError("File is not a valid text file: " \o Str(e))
    ELSE DocumentError("Error reading file: " \o Str(e))

\* main()'s plain-text branch: open(doc_path, "r", encoding="utf-8"), read,
\* reject blank content; every exception of the block goes through
\* main_read_handler
read_text_file(path, opened, bytes) ==
    IF Raised(opened)
    THEN Raise(main_read_handler(opened.exc))
    ELSE IF ~Utf8Valid(bytes)
    THEN Raise(main_read_handler(
             Builtin("UnicodeDecodeError", "'utf-8' codec can't decode byte")))
    ELSE LET t == UniversalNewlines(Utf8Decode(bytes))
         IN  IF Strip(t) = <<>>
             THEN Raise(main_read_handler(InvalidDocumentError(
                      "File is empty or unreadable: " \o Join(path))))
             ELSE Return(t)

\* the branch test of main(), as a bug would have it: the PDF reader is never
\* chosen
UsesPdfReaderNever(e) == FALSE

\* ext == ".pdf"
UsesPdfReader(e) == e = <<".", "p", "d", "f">>

\* except DocumentError: raise / except Exception: wrap
main_handler(e) ==
    IF IsDocumentError(e)
    THEN e
    ELSE DocumentError("Unhandled error in main: " \o Str(e))

-----------------------------------------------------------------------------
(* HTTP service (src/src/app.py) *)

\* extract_text_from_pdf(pdf_contents), given how the parser ends
extract_text_from_pdf(parsed) ==
    IF Raised(parsed) THEN Raise(parsed.exc) ELSE Return(ConcatPages(parsed.value))

\* extract_text_from_file(contents, filename), given how the parser would end
extract_text_from_file(contents, fname, parsed) ==
    IF Truthy(fname) /\ EndsWith(Lower(fname), <<".", "p", "d", "f">>)
    THEN extract_text_from_pdf(parsed)
    ELSE IF Utf8Valid(contents)
    THEN Return(Utf8Decode(contents))
    ELSE Raise(HTTPException(400,
             "Unsupported file format. Please upload a PDF or text file."))

\* except ValueError in generate_summary
generate_summary_handler(e) ==
    IF IsValueError(e) THEN HTTPException(500, Str(e)) ELSE e

\* the handlers of the endpoint, as a bug would have them: a DocumentError is
\* reported like any other exception
summarize_handler_generic(e) ==
    HTTPException(500, "An unexpected error occurred: " \o Str(e))

\* except DocumentError / except Exception of the endpoint: the exception
\* that leaves the handler
summarize_handler(e) ==
    IF IsDocumentError(e)
    THEN HTTPException(e.status_code, Str(e))
    ELSE HTTPException(500, "An unexpected error occurred: " \o Str(e))

-----------------------------------------------------------------------------
(* Inputs and the environment's answers *)

Paths ==
    { <<"a", ".", "t", "x", "t">>,
      <<"a", ".", "T", "X", "T">>,
      <<"a", ".", "p", "d", "f">>,
      <<"a", ".", "P", "d", "f">>,
      <<"a", ".", "c", "s", "v">>,
      <<".", "t", "x", "t">>,
      <<"d", ".", "x", "/", "a">> }

Filenames ==
    { None, <<>>,
      <<"a", ".", "t", "x", "t">>,
      <<"a", ".", "P", "D", "F">>,
      <<"f", "i", "l", "e", ".", "b", "i", "n">> }

AllowedChoices ==
    { ALLOWED_TYPES, << <<".", "t", "x", "t">> >>, << <<".", "c", "s", "v">> >>, <<>> }

ApiKeys == { None, <<>>, <<"s", "k">> }

Contents == SeqsUpTo(ByteAlphabet, MaxLen)

Texts == {None} \cup SeqsUpTo({"a", " ", "\n"}, MaxLen)

\* what one page's extract_text() gives
PageTexts == { None, <<"a">>, <<"\n">> }

\* how os.path.getsize ends on a file of the given bytes
GetsizeOutcomes(bytes) ==
    { Return(Len(bytes)),
      Raise(Builtin("FileNotFoundError", "[Errno 2] No such file or directory")) }

\* how open() ends
OpenOutcomes ==
    { Return(<<>>),
      Raise(Builtin("PermissionError", "[Errno 13] Permission denied")) }

\* how pypdf's PdfReader and the page loop end
ParseOutcomes ==
    { Return(pages) : pages \in SeqsUpTo(PageTexts, MaxPages) }
    \cup { Raise(Builtin("PdfStreamError", "Stream has ended unexpectedly")),
           Raise(Builtin("PdfReadError", "EOF marker not found")),
           Raise(Builtin("OSError", "[Errno 5] Input/output error")) }

\* how ChatOpenAI(...) and load_summarize_chain(...) end
BuildOutcomes ==
    { Return(<<>>),
      Raise(Builtin("OpenAIError", "client could not be constructed")) }

\* how chain.invoke(...) ends: result.get("output_text"), or an exception
InvokeOutcomes ==
    { Return(None), Return(<<>>), Return(<<"s", "u", "m">>),
      Raise(Builtin("ValueError", "Invalid input format")),
      Raise(Builtin("AttributeError", "object has no attribute")),
      Raise(Builtin("APIConnectionError", "Connection error.")) }

\* one call the run made: its argument or result, and what it raised
Ev(call, value, raised) == [call |-> call, value |-> value, raised |-> raised]

NoResponse == [status |-> 0]

NoExit == [code |-> -1]

-----------------------------------------------------------------------------
(* Initial states: one run of one entry point *)

InitCommon ==
    /\ ext = None
    /\ summary = None
    /\ ret = None
    /\ exc = NoException
    /\ response = NoResponse
    /\ exit = NoExit
    /\ trace = <<>>

\* python summarize_document.py [<document_path>]
InitCli ==
    /\ entry = "cli"
    /\ pc = "main"
    /\ argv \in {<<"summarize_document.py">>}
                \cup {<<"summarize_document.py", Join(p)>> : p \in Paths}
    /\ doc_path \in Paths
    /\ Len(argv) >= 2 => argv[2] = Join(doc_path)
    /\ Len(argv) < 2 => doc_path = <<"a", ".", "t", "x", "t">>
    /\ fexists \in BOOLEAN
    /\ content \in Contents
    /\ ~fexists => content = <<>>
    /\ filename = None
    /\ allowed = ALLOWED_TYPES
    /\ maxsize = MAX_SIZE_BYTES
    /\ apikey \in ApiKeys
    /\ text = None

\* POST /summarize with one uploaded file
InitHttp ==
    /\ entry = "http"
    /\ pc = "summarize"
    /\ argv = <<>>
    /\ doc_path = None
    /\ fexists = FALSE
    /\ content \in Contents
    /\ filename \in Filenames
    /\ allowed = ALLOWED_TYPES
    /\ maxsize = MAX_SIZE_BYTES
    /\ apikey \in ApiKeys
    /\ text = None

\* a direct call summarize_text(text)
InitSummarizeText ==
    /\ entry = "summarize_text"
    /\ pc = "summarize_text"
    /\ argv = <<>>
    /\ doc_path = None
    /\ fexists = FALSE
    /\ content = <<>>
    /\ filename = None
    /\ allowed = ALLOWED_TYPES
    /\ maxsize = MAX_SIZE_BYTES
    /\ apikey \in ApiKeys
    /\ text \in Texts

\* a direct call validate_document(doc_path, allowed_types, max_size_bytes)
InitValidateDocument ==
    /\ entry = "validate_document"
    /\ pc = "validate_document"
    /\ argv = <<>>
    /\ doc_path \in Paths
    /\ fexists \in BOOLEAN
    /\ content \in Contents
    /\ ~fexists => content = <<>>
    /\ filename = None
    /\ allowed \in AllowedChoices
    /\ maxsize \in 0..MaxLen
    /\ apikey = None
    /\ text = None

\* a direct call extract_pdf_text(pdf_path)
InitExtractPdfText ==
    /\ entry = "extract_pdf_text"
    /\ pc = "extract_pdf_text"
    /\ argv = <<>>
    /\ doc_path \in Paths
    /\ fexists \in BOOLEAN
    /\ content \in Contents
    /\ ~fexists => content = <<>>
    /\ filename = None
    /\ allowed = ALLOWED_TYPES
    /\ maxsize = MAX_SIZE_BYTES
    /\ apikey = None
    /\ text = None

Init ==
    /\ InitCommon
    /\ \/ InitCli
       \/ InitHttp
       \/ InitSummarizeText
       \/ InitValidateDocument
       \/ InitExtractPdfText

-----------------------------------------------------------------------------
(* summarize_text, step by step *)

\* entry to summarize_text and its emptiness check
summarize_text_check ==
    /\ pc = "summarize_text"
    /\ trace' = Append(trace, Ev("summarize_text", text, NoException))
    /\ IF IsBlank(text)
       THEN /\ exc' = InvalidDocumentError("Empty text cannot be summarized")
            /\ pc' = "summarize_text_done"
       ELSE /\ exc' = exc
            /\ pc' = "get_openai_key"
    /\ UNCHANGED <<entry, argv, doc_path, fexists, content, filename, allowed,
                   maxsize, apikey, ext, text, summary, ret, response, exit>>

\* utils.get_openai_key(), inside the try block of summarize_text
summarize_text_get_key ==
    /\ pc = "get_openai_key"
    /\ trace' = Append(trace, Ev("os.getenv", apikey, NoException))
    /\ LET o == get_openai_key(apikey)
       IN  IF Raised(o)
           THEN /\ exc' = summarize_text_handler(o.exc)
                /\ pc' = "summarize_text_done"
           ELSE /\ exc' = exc
                /\ pc' = "build_chain"
    /\ UNCHANGED <<entry, argv, doc_path, fexists, content, filename, allowed,
                   maxsize, apikey, ext, text, summary, ret, response, exit>>

\* ChatOpenAI(api_key=...), load_summarize_chain(llm, "stuff"), Document(...)
summarize_text_build ==
    /\ pc = "build_chain"
    /\ \E o \in BuildOutcomes :
         IF Raised(o)
         THEN /\ trace' = Append(trace, Ev("ChatOpenAI", None, o.exc))
              /\ exc' = summarize_text_handler(o.exc)
              /\ pc' = "summarize_text_done"
         ELSE /\ trace' = trace \o <<Ev("ChatOpenAI", None, NoException),
                                     Ev("load_summarize_chain", None,
                                        NoException)>>
              /\ exc' = exc
              /\ pc' = "invoke"
    /\ UNCHANGED <<entry, argv, doc_path, fexists, content, filename, allowed,
                   maxsize, apikey, ext, text, summary, ret, response, exit>>

\* chain.invoke(...), the check of its output and the return
summarize_text_invoke ==
    /\ pc = "invoke"
    /\ \E o \in InvokeOutcomes :
         /\ trace' = Append(trace, Ev("chain.invoke", o.value, o.exc))
         /\ IF Raised(o)
            THEN /\ exc' = summarize_text_handler(
                               summarize_text_invoke_handler(o.exc))
                 /\ summary' = summary
            ELSE IF ~Truthy(o.value)
            THEN /\ exc' = summarize_text_handler(
                               SummarizationError("No summary returned from model"))
                 /\ summary' = summary
            ELSE /\ exc' = exc
                 /\ summary' = o.value
    /\ pc' = "summarize_text_done"
    /\ UNCHANGED <<entry, argv, doc_path, fexists, content, filename, allowed,
                   maxsize, apikey, ext, text, ret, response, exit>>

-----------------------------------------------------------------------------
(* A direct call of validate_document *)

call_validate_document ==
    /\ entry = "validate_document"
    /\ pc = "validate_document"
    /\ \E g \in GetsizeOutcomes(content) :
         LET o == validate_document(doc_path, allowed, maxsize, fexists, g)
         IN  /\ trace' = Append(trace, Ev("validate_document", o.value, o.exc))
             /\ exc' = o.exc
             /\ ret' = o.value
    /\ pc' = "returned"
    /\ UNCHANGED <<entry, argv, doc_path, fexists, content, filename, allowed,
                   maxsize, apikey, ext, text, summary, response, exit>>

-----------------------------------------------------------------------------
(* A direct call of extract_pdf_text *)

\* the trace keeps how open() and the parser ended, when they were reached
call_extract_pdf_text ==
    /\ entry = "extract_pdf_text"
    /\ pc = "extract_pdf_text"
    /\ \E op \in OpenOutcomes, pa \in ParseOutcomes :
         LET o == extract_pdf_text(doc_path, fexists, op, pa)
             reached ==
                 IF ~fexists THEN <<>>
                 ELSE IF Raised(op) THEN <<Ev("open", None, op.exc)>>
                 ELSE <<Ev("open", None, NoException),
                        Ev("pypdf.PdfReader", pa.value, pa.exc)>>
         IN  /\ trace' = trace \o reached
                             \o <<Ev("extract_pdf_text", o.value, o.exc)>>
             /\ exc' = o.exc
             /\ ret' = o.value
    /\ pc' = "returned"
    /\ UNCHANGED <<entry, argv, doc_path, fexists, content, filename, allowed,
                   maxsize, apikey, ext, text, summary, response, exit>>

-----------------------------------------------------------------------------
(* The CLI driver main() and the __main__ block *)

\* the argument check of main()
main_argv ==
    /\ entry = "cli"
    /\ pc = "main"
    /\ IF Len(argv) < 2
       THEN /\ exc' = InvalidDocumentError(
                          "Usage: python summarize_document.py <document_path>")
            /\ pc' = "main_done"
       ELSE /\ exc' = exc
            /\ pc' = "validate_document"
    /\ UNCHANGED <<entry, argv, doc_path, fexists, content, filename, allowed,
                   maxsize, apikey, ext, text, summary, ret, response, exit,
                   trace>>

\* ext = utils.validate_document(doc_path), before the try block of main()
main_validate ==
    /\ entry = "cli"
    /\ pc = "validate_document"
    /\ \E g \in GetsizeOutcomes(content) :
         LET o == validate_document(doc_path, ALLOWED_TYPES, MAX_SIZE_BYTES,
                                    fexists, g)
         IN  /\ trace' = Append(trace, Ev("validate_document", o.value, o.exc))
             /\ IF Raised(o)
                THEN /\ exc' = o.exc
                     /\ ext' = ext
                     /\ pc' = "main_done"
                ELSE /\ exc' = exc
                     /\ ext' = o.value
                     /\ pc' = "extract"
    /\ UNCHANGED <<entry, argv, doc_path, fexists, content, filename, allowed,
                   maxsize, apikey, text, summary, ret, response, exit>>

\* the extraction step of main(): extract_pdf_text for ".pdf", the plain-text
\* reader otherwise; an exception goes through the outer handlers of main()
main_extract ==
    /\ entry = "cli"
    /\ pc = "extract"
    /\ \E o \in
         IF UsesPdfReader(ext)
         THEN { LET out == extract_pdf_text(doc_path, ex, op, pa)
                IN  [call |-> "extract_pdf_text", raised |-> out.exc,
                     out |-> out] :
                    ex \in BOOLEAN, op \in OpenOutcomes, pa \in ParseOutcomes }
         ELSE { [call |-> "open", raised |-> op.exc,
                 out |-> read_text_file(doc_path, op, content)] :
                    op \in OpenOutcomes } :
         /\ trace' = Append(trace, Ev(o.call, o.out.value, o.raised))
         /\ IF Raised(o.out)
            THEN /\ exc' = main_handler(o.out.exc)
                 /\ text' = text
                 /\ pc' = "main_done"
            ELSE /\ exc' = exc
                 /\ text' = o.out.value
                 /\ pc' = "summarize_text"
    /\ UNCHANGED <<entry, argv, doc_path, fexists, content, filename, allowed,
                   maxsize, apikey, ext, summary, ret, response, exit>>

\* the end of main(): return the summary, or let the exception of
\* summarize_text through the outer handlers
main_return ==
    /\ entry = "cli"
    /\ pc = "summarize_text_done"
    /\ IF exc # NoException
       THEN /\ exc' = main_handler(exc)
            /\ ret' = ret
       ELSE /\ exc' = exc
            /\ ret' = summary
    /\ pc' = "main_done"
    /\ UNCHANGED <<entry, argv, doc_path, fexists, content, filename, allowed,
                   maxsize, apikey, ext, text, summary, response, exit, trace>>

\* if __name__ == "__main__": print the summary, or "Error: ..." and exit 1;
\* an exception that is no DocumentError is not caught and the interpreter
\* ends the process with a traceback
program_exit ==
    /\ entry = "cli"
    /\ pc = "main_done"
    /\ exit' = IF exc = NoException
               THEN [code |-> 0, stdout |-> ret, uncaught |-> FALSE]
               ELSE IF IsDocumentError(exc)
               THEN [code |-> 1, stderr |-> "Error: " \o Str(exc),
                     uncaught |-> FALSE]
               ELSE [code |-> 1,
                     stderr |-> "Traceback (most recent call last): "
                                \o exc.type \o ": " \o Str(exc),
                     uncaught |-> TRUE]
    /\ pc' = "exited"
    /\ UNCHANGED <<entry, argv, doc_path, fexists, content, filename, allowed,
                   maxsize, apikey, ext, text, summary, ret, exc, response,
                   trace>>

-----------------------------------------------------------------------------
(* The POST /summarize handler *)

\* contents = await file.read() and the filename check
http_read ==
    /\ entry = "http"
    /\ pc = "summarize"
    /\ IF filename = None
       THEN /\ exc' = HTTPException(400, "Uploaded file must have a filename.")
            /\ pc' = "http_handler"
       ELSE /\ exc' = exc
            /\ pc' = "extract_text_from_file"
    /\ UNCHANGED <<entry, argv, doc_path, fexists, content, filename, allowed,
                   maxsize, apikey, ext, text, summary, ret, response, exit,
                   trace>>

\* text = extract_text_from_file(contents, file.filename)
http_extract ==
    /\ entry = "http"
    /\ pc = "extract_text_from_file"
    /\ \E pa \in ParseOutcomes :
         LET o == extract_text_from_file(content, filename, pa)
         IN  /\ trace' = Append(trace, Ev("extract_text_from_file", o.value, o.exc))
             /\ IF Raised(o)
                THEN /\ exc' = o.exc
                     /\ text' = text
                     /\ pc' = "http_handler"
                ELSE /\ exc' = exc
                     /\ text' = o.value
                     /\ pc' = "summarize_text"
    /\ UNCHANGED <<entry, argv, doc_path, fexists, content, filename, allowed,
                   maxsize, apikey, ext, summary, ret, response, exit>>

\* generate_summary(text), after its call of summarize_text has ended
http_generate_summary ==
    /\ entry = "http"
    /\ pc = "summarize_text_done"
    /\ IF exc # NoException
       THEN /\ exc' = generate_summary_handler(exc)
            /\ ret' = ret
       ELSE IF ~Truthy(summary)
       THEN /\ exc' = HTTPException(500, "Failed to generate summary")
            /\ ret' = ret
       ELSE /\ exc' = exc
            /\ ret' = summary
    /\ pc' = "http_handler"
    /\ UNCHANGED <<entry, argv, doc_path, fexists, content, filename, allowed,
                   maxsize, apikey, ext, text, summary, response, exit, trace>>

\* the except clauses of the endpoint and the framework's rendering of the
\* outcome: 200 {"summary": ...}, or the status and detail of the
\* HTTPException that leaves the handler
http_respond ==
    /\ entry = "http"
    /\ pc = "http_handler"
    /\ response' = IF exc = NoException
                   THEN [status |-> 200, summary |-> ret]
                   ELSE LET h == summarize_handler(exc)
                        IN  [status |-> h.status_code, detail |-> h.detail]
    /\ pc' = "responded"
    /\ UNCHANGED <<entry, argv, doc_path, fexists, content, filename, allowed,
                   maxsize, apikey, ext, text, summary, ret, exc, exit, trace>>

-----------------------------------------------------------------------------
(* Specification *)

Next ==
    \/ summarize_text_check
    \/ summarize_text_get_key
    \/ summarize_text_build
    \/ summarize_text_invoke
    \/ call_validate_document
    \/ call_extract_pdf_text
    \/ main_argv
    \/ main_validate
    \/ main_extract
    \/ main_return
    \/ program_exit
    \/ http_read
    \/ http_extract
    \/ http_generate_summary
    \/ http_respond

Spec == Init /\ [][Next]_vars

-----------------------------------------------------------------------------
(* Properties *)

Called(call) == \E i \in 1..Len(trace) : trace[i].call = call

Last == trace[Len(trace)]

HttpDone == entry = "http" /\ pc = "responded"

MainDone == entry = "cli" /\ pc \in {"main_done", "exited"}

\* C1: a POST /summarize request whose upload has no filename is answered
\* with status 400 and detail "Uploaded file must have a filename.", whatever
\* the bytes, and summarize_text is not called.
C1_MissingFilenameIs400 ==
    (HttpDone /\ filename = None) =>
        /\ response = [status |-> 400,
                       detail |-> "Uploaded file must have a filename."]
        /\ ~Called("summarize_text")

\* C2: a POST /summarize request whose filename does not end with ".pdf"
\* (case-insensitively) and whose bytes are not valid UTF-8 is answered with
\* status 400 and detail "Unsupported file format. Please upload a PDF or
\* text file.", and summarize_text is not called.
C2_UndecodableUploadIs400 ==
    (/\ HttpDone
     /\ filename # None
     /\ ~EndsWith(Lower(filename), <<".", "p", "d", "f">>)
     /\ ~Utf8Valid(content)) =>
        /\ response =
             [status |-> 400,
              detail |-> "Unsupported file format. Please upload a PDF or text file."]
        /\ ~Called("summarize_text")

\* C3: every DocumentError carries the status code of its kind (404 not
\* found, 400 invalid, 500 summarization and base); when one is raised while
\* the POST /summarize handler runs, the response has that status code and
\* the error's message as detail; an upload whose extracted text is empty or
\* all whitespace is answered 400 "Empty text cannot be summarized".
C3_DocumentErrorKeepsStatusAndMessage ==
    /\ IsDocumentError(exc) =>
         exc.status_code = CASE exc.type = "DocumentNotFoundError" -> 404
                             [] exc.type = "InvalidDocumentError" -> 400
                             [] exc.type = "SummarizationError" -> 500
                             [] exc.type = "DocumentError" -> 500
    /\ (HttpDone /\ IsDocumentError(exc)) =>
         response = [status |-> exc.status_code, detail |-> exc.message]
    /\ (HttpDone /\ text # None /\ Strip(text) = <<>>) =>
         response = [status |-> 400,
                     detail |-> "Empty text cannot be summarized"]

\* C3 witness: a whitespace-only upload was answered from the
\* InvalidDocumentError that summarize_text raised.
C3_Witness ==
    /\ HttpDone
    /\ text # None /\ text # <<>> /\ Strip(text) = <<>>
    /\ exc.type = "InvalidDocumentError"
    /\ response.status = 400

\* C4: when summarize_text is called with an absent, empty or all-whitespace
\* text, the call is the last thing that happens: it ends with
\* InvalidDocumentError (400) "Empty text cannot be summarized", the
\* credential is not read, no client or chain is built and the model is not
\* invoked.
C4_BlankTextFailsBeforeAnyOtherStep ==
    \A i \in 1..Len(trace) :
        (/\ trace[i].call = "summarize_text"
         /\ \/ trace[i].value = None
            \/ Strip(trace[i].value) = <<>>) =>
            /\ i = Len(trace)
            /\ pc \notin {"get_openai_key", "build_chain", "invoke"}
            /\ summary = None
            /\ pc = "summarize_text_done" =>
                 exc = [type |-> "InvalidDocumentError",
                        message |-> "Empty text cannot be summarized",
                        status_code |-> 400]

\* C4 witness: summarize_text was called with a non-empty text of whitespace
\* only and has failed.
C4_Witness ==
    /\ pc = "summarize_text_done"
    /\ text # None /\ text # <<>> /\ Strip(text) = <<>>
    /\ Last.call = "summarize_text"
    /\ exc.type = "InvalidDocumentError"

\* C5: validate_document reports the first failing check in the order
\* existence, extension, emptiness, size ceiling, and returns the lower-cased
\* extension otherwise; a size equal to the ceiling is accepted; a missing
\* file with a disallowed extension is reported as not found.  (The cases are
\* those where the file's size can be read.)
C5_ValidateDocumentOrder ==
    (entry = "validate_document" /\ pc = "returned" /\ ~IsOSError(exc)) =>
        LET e == Lower(splitext_ext(doc_path))
            size == Len(content)
        IN  /\ IF ~fexists
               THEN exc = [type |-> "DocumentNotFoundError",
                           message |-> "File not found: " \o Join(doc_path),
                           status_code |-> 404]
               ELSE IF ~InList(e, allowed)
               THEN exc = [type |-> "InvalidDocumentError",
                           message |-> "Unsupported file type: " \o Join(e)
                                       \o ". Allowed types: " \o ReprList(allowed),
                           status_code |-> 400]
               ELSE IF size = 0
               THEN exc = [type |-> "InvalidDocumentError",
                           message |-> "File is empty: " \o Join(doc_path),
                           status_code |-> 400]
               ELSE IF size > maxsize
               THEN exc = [type |-> "InvalidDocumentError",
                           message |-> "File too large: " \o ToString(size)
                                       \o " bytes. Max allowed is "
                                       \o ToString(maxsize) \o " bytes.",
                           status_code |-> 400]
               ELSE exc = NoException /\ ret = e
            /\ (/\ doc_path = <<"a", ".", "T", "X", "T">>
                /\ exc = NoException) => ret = <<".", "t", "x", "t">>
            /\ doc_path \in {<<".", "t", "x", "t">>, <<"d", ".", "x", "/", "a">>}
                 => exc # NoException

\* C5 witness: a file whose size equals max_size_bytes was accepted.
C5_Witness ==
    /\ entry = "validate_document" /\ pc = "returned"
    /\ fexists /\ Len(content) = maxsize /\ maxsize > 0
    /\ exc = NoException
    /\ ret = <<".", "t", "x", "t">>


\* the run has just left summarize_text, which was given a non-blank text and
\* found a credential
SummarizeTextEndedWithKey ==
    /\ pc = "summarize_text_done"
    /\ text # None /\ Strip(text) # <<>>
    /\ apikey # None /\ apikey # <<>>

\* C6: for a non-blank text with a credential available, summarize_text
\* returns the model's output text, which is then non-empty, or fails with a
\* SummarizationError (500): "Error during text summarization: {detail}" for
\* a ValueError or AttributeError of the invocation, "No summary returned
\* from model" for an absent or empty output, "Unexpected error during
\* summarization: {detail}" for any other exception; a SummarizationError
\* raised inside is not wrapped again.
C6_SummarizeTextOutcomes ==
    SummarizeTextEndedWithKey =>
        /\ Last.call \in {"ChatOpenAI", "chain.invoke"}
        /\ \/ exc = NoException /\ summary # None /\ summary # <<>>
           \/ exc.type = "SummarizationError" /\ exc.status_code = 500
        /\ Last.call = "ChatOpenAI" =>
             exc = [type |-> "SummarizationError",
                    message |-> "Unexpected error during summarization: "
                                \o Last.raised.message,
                    status_code |-> 500]
        /\ Last.call = "chain.invoke" =>
             IF Last.raised.type \in {"ValueError", "AttributeError"}
             THEN exc = [type |-> "SummarizationError",
                         message |-> "Error during text summarization: "
                                     \o Last.raised.message,
                         status_code |-> 500]
             ELSE IF Last.raised # NoException
             THEN exc = [type |-> "SummarizationError",
                         message |-> "Unexpected error during summarization: "
                                     \o Last.raised.message,
                         status_code |-> 500]
             ELSE IF Last.value \in {None, <<>>}
             THEN exc = [type |-> "SummarizationError",
                         message |-> "No summary returned from model",
                         status_code |-> 500]
             ELSE exc = NoException /\ summary = Last.value

\* C6 witness: the invocation raised ValueError and summarize_text failed
\* with the once-wrapped SummarizationError.
C6_Witness ==
    /\ SummarizeTextEndedWithKey
    /\ Last.call = "chain.invoke"
    /\ Last.raised.type = "ValueError"
    /\ exc.message = "Error during text summarization: Invalid input format"

\* C7: when summarize_text is called with a non-blank text and
\* OPENAI_API_KEY is absent or empty, the error raised by get_openai_key
\* ("OPENAI_API_KEY not set in environment") leaves summarize_text
\* unchanged, not wrapped into a SummarizationError, and the model is not
\* invoked.
C7_CredentialErrorReraisedUnchanged ==
    (/\ pc = "summarize_text_done"
     /\ text # None /\ Strip(text) # <<>>
     /\ apikey \in {None, <<>>}) =>
        /\ exc = [type |-> "ValueError",
                  message |-> "OPENAI_API_KEY not set in environment"]
        /\ ~Called("chain.invoke")

\* the plain-text reader of main() has run on a file that opened, decodes as
\* UTF-8, is not empty and holds only whitespace
MainReadBlankFile ==
    /\ MainDone
    /\ Len(trace) = 2
    /\ Last.call = "open" /\ Last.raised = NoException
    /\ Len(content) > 0
    /\ Utf8Valid(content)
    /\ Strip(Utf8Decode(content)) = <<>>

\* C8: main() on a validated non-PDF file whose content is non-zero in size
\* but empty after stripping whitespace fails with InvalidDocumentError (400)
\* "File is empty or unreadable: {path}".
C8_BlankFileIsInvalidDocument ==
    MainReadBlankFile =>
        exc = [type |-> "InvalidDocumentError",
               message |-> "File is empty or unreadable: " \o Join(doc_path),
               status_code |-> 400]

\* C9: main() returns a summary or raises a DocumentError, whatever each step
\* does, an operating-system failure included; the standalone program ends
\* with exit code 0 or with exit code 1 and "Error: {message}", never with an
\* uncaught exception.
C9_MainRaisesOnlyDocumentErrors ==
    /\ (entry = "cli" /\ pc = "main_done") =>
         \/ exc = NoException /\ ret # None
         \/ IsDocumentError(exc)
    /\ (entry = "cli" /\ pc = "exited") =>
         /\ ~exit.uncaught
         /\ exit.code \in {0, 1}
         /\ exit.code = 1 => exit.stderr = "Error: " \o exc.message

\* the order of the steps of one main() invocation and what flows between
\* them; Read(bytes) is what the plain-text reader is taken to deliver
MainOrder(Read(_)) ==
    entry = "cli" =>
        /\ Cardinality({i \in 1..Len(trace) : trace[i].call = "summarize_text"}) <= 1
        /\ \A i \in 1..Len(trace) :
             trace[i].call = "summarize_text" =>
                /\ i = 3
                /\ trace[1].call = "validate_document"
                /\ trace[1].raised = NoException
                /\ trace[2].call \in {"extract_pdf_text", "open"}
                /\ trace[2].raised = NoException
                /\ trace[3].value = trace[2].value
                /\ IF trace[1].value = <<".", "p", "d", "f">>
                   THEN trace[2].call = "extract_pdf_text" /\ ~Called("open")
                   ELSE /\ trace[2].call = "open"
                        /\ ~Called("extract_pdf_text")
                        /\ trace[3].value = Read(content)
        /\ \A i \in 1..Len(trace) :
             /\ trace[i].call = "validate_document" => i = 1
             /\ trace[i].call \in {"extract_pdf_text", "open"} =>
                  /\ i = 2
                  /\ trace[1].raised = NoException
                  /\ (trace[i].call = "extract_pdf_text")
                       <=> (trace[1].value = <<".", "p", "d", "f">>)
        /\ (MainDone /\ exc = NoException) =>
             /\ Last.call = "chain.invoke"
             /\ ret = Last.value
             /\ ret = summary

\* bytes.decode("utf-8"), with no newline translation
DecodeOnly(bytes) == Utf8Decode(bytes)

\* what a text-mode read delivers
DecodeTextMode(bytes) == UniversalNewlines(Utf8Decode(bytes))

\* C10 as stated: within one main() invocation the steps run in the order
\* validate, extract, summarize; summarize_text is called at most once and
\* only after both succeeded; for ".pdf" its text is the result of
\* extract_pdf_text and the plain-text reader is not used, otherwise it is
\* exactly the UTF-8 content of the file; main() returns summarize_text's
\* result unchanged.
C10_Original_TextIsExactFileContent == MainOrder(DecodeOnly)

\* C10 as amended: as C10, except that for a non-PDF file the text passed to
\* summarize_text is the file's content decoded as UTF-8 and read in text
\* mode, every "\r\n" and lone "\r" of it delivered as "\n".
C10_MainStepOrder == MainOrder(DecodeTextMode)

\* C10 witness: main() returned the summary of a text file that holds a
\* carriage return.
C10_Witness ==
    /\ MainDone /\ exc = NoException
    /\ trace[2].call = "open"
    /\ \E i \in 1..Len(content) : content[i] = 13
    /\ ret = <<"s", "u", "m">>


\* C11: every POST /summarize request ends with 200 and {"summary": s}, s the
\* non-empty string summarize_text returned, or with an error response whose
\* status is 400, 404 or 500 and matches the failure: the handler's own HTTP
\* errors keep their status and detail, a DocumentError gives its status code
\* and message, and any other exception (a PDF-parser failure, say) gives 500
\* "An unexpected error occurred: {detail}".
C11_ResponseMatchesFailureCategory ==
    HttpDone =>
        IF exc = NoException
        THEN /\ response = [status |-> 200, summary |-> summary]
             /\ summary # None /\ summary # <<>>
        ELSE /\ response.status \in {400, 404, 500}
             /\ IF exc.type = "HTTPException"
                THEN response = [status |-> exc.status_code,
                                 detail |-> exc.detail]
                ELSE IF IsDocumentError(exc)
                THEN response = [status |-> exc.status_code,
                                 detail |-> exc.message]
                ELSE response = [status |-> 500,
                                 detail |-> "An unexpected error occurred: "
                                            \o exc.message]


RECURSIVE PagesText(_, _)
\* the text of the first n pages, one after the other with nothing between,
\* a page without text counting as ""
PagesText(pages, n) ==
    IF n = 0 THEN <<>>
    ELSE PagesText(pages, n - 1)
         \o (IF pages[n] = None THEN <<>> ELSE pages[n])

ExtractPdfTextDone == entry = "extract_pdf_text" /\ pc = "returned"

\* C12: extract_pdf_text gives DocumentNotFoundError (404, "File not found:
\* ...") for a missing path; base DocumentError (500, "Error accessing file:
\* ...") when the operating system fails to open the file;
\* InvalidDocumentError (400, "Invalid or corrupted PDF file: ...") when the
\* parser reports an invalid stream; base DocumentError (500, "Error reading
\* PDF file: ...") for any other failure of parsing or page extraction;
\* otherwise the pages' texts concatenated in page order, a page with no text
\* contributing "".  It raises nothing that is not a DocumentError.
C12_ExtractPdfTextOutcomes ==
    ExtractPdfTextDone =>
        /\ exc = NoException \/ IsDocumentError(exc)
        /\ Last.call = "extract_pdf_text" /\ Last.raised = exc
        /\ IF ~fexists
           THEN exc = [type |-> "DocumentNotFoundError",
                       message |-> "File not found: " \o Join(doc_path),
                       status_code |-> 404]
           ELSE IF trace[1].raised # NoException
           THEN exc = [type |-> "DocumentError",
                       message |-> "Error accessing file: "
                                   \o trace[1].raised.message,
                       status_code |-> 500]
           ELSE IF trace[2].raised = NoException
           THEN /\ exc = NoException
                /\ ret = PagesText(trace[2].value, Len(trace[2].value))
           ELSE IF trace[2].raised.type = "PdfStreamError"
           THEN exc = [type |-> "InvalidDocumentError",
                       message |-> "Invalid or corrupted PDF file: "
                                   \o trace[2].raised.message,
                       status_code |-> 400]
           ELSE exc = [type |-> "DocumentError",
                       message |-> "Error reading PDF file: "
                                   \o trace[2].raised.message,
                       status_code |-> 500]

\* C12 witness: the parser reported an invalid stream and extract_pdf_text
\* raised the InvalidDocumentError, not wrapped again.
C12_Witness ==
    /\ ExtractPdfTextDone
    /\ Len(trace) = 3
    /\ trace[2].raised.type = "PdfStreamError"
    /\ exc.type = "InvalidDocumentError"
    /\ exc.message = "Invalid or corrupted PDF file: Stream has ended unexpectedly"

====
